---------------------------- MODULE Spec2Model ----------------------------
(***************************************************************************)
(* Model of Telegram/SourceFiles/calls/calls_group_panel.cpp: the group    *)
(* call panel (GroupPanel), its invite box (InviteController), the leave   *)
(* box (LeaveGroupCallBox) and the placement of the panel's title label.   *)
(*                                                                         *)
(* Everything runs on the main thread: one action is one handler run to    *)
(* completion.  Five specifications share the variables:                   *)
(*   SpecInvite    the invite box of an attached panel and its counter,    *)
(*   SpecPanel     the panel, its boxes and the life of the call object,   *)
(*   SpecTitle     the size handler, the deferred refresh and the title,   *)
(*   SpecResize    resizes in the order the main loop runs their steps,    *)
(*   SpecControls  the buttons, the call's state and the window.           *)
(***************************************************************************)
EXTENDS Integers, Sequences, FiniteSets, TLC

(***************************************************************************)
(* Bounds of the model.                                                    *)
(***************************************************************************)
NumUsers == 2        \* ordinary users 1..NumUsers
MaxFull == 2         \* largest full count the server reports
MaxMembers == 3      \* largest channel members count
MaxWidth == 6        \* largest width of the widget and of the controls' x
MaxNatural == 4      \* largest natural width of the title label
MaxPending == 2      \* most refreshTitle callbacks queued at once
MaxLevel == 1        \* largest level of a level update

(***************************************************************************)
(* Users.  session().user() is the viewer; bots carry the bot flag.        *)
(***************************************************************************)
Self == 0
Bots == {-1}
Users == {Self} \cup Bots \cup (1..NumUsers)

isSelf(u) == u = Self
isBot(u) == u \in Bots

(***************************************************************************)
(* The call the panel was made for, and what channel->call() may hold.     *)
(***************************************************************************)
CallId == 1
OtherCallId == 2
NoRealCall == 0
RealCalls == {NoRealCall, CallId, OtherCallId}

VARIABLES
    \* GroupPanel and the call object
    call,            \* _call is not null (the panel is attached)
    callAlive,       \* the GroupCall object exists (a weak pointer to it is valid)
    realCall,        \* _channel->call(): NoRealCall, or the id of the real call
    membersCount,    \* _channel->membersCount()
    box,             \* the box shown by _layerBg: "none", "leave", "invite"
                     \* or "settings"
                     \* (the layer covers the panel: one box at a time)
    leaveDiscard,    \* the leave box's checkbox: "absent", "checked", "unchecked"
    \* InviteController of the open invite box, and its delegate (the list)
    alreadyIn,       \* _alreadyIn
    argFullInCount,  \* the fullInCount argument the constructor was given
    fullInCount,     \* _fullInCount
    skippedUsers,    \* _skippedUsers
    rowState,        \* user -> "none", "enabled" or "disabledChecked"
    selected,        \* the users of the selected rows
    additional,      \* the additional title, a sequence of characters
    titleFresh,      \* updateTitle() ran after the last change of what it reads
    \* the window, the panel's widget and the title label
    platformWin,     \* built with Q_OS_WIN: _controls exists
    widgetWidth,     \* widget()->width()
    widgetHeight,    \* widget()->height()
    naturalWidth,    \* _title->naturalWidth()
    controlsX,       \* _controls->geometry().x()
    title,           \* _title: whether it exists, its x and its width
    windowTitle,     \* the window's native title
    pendingRefresh,  \* refreshTitle callbacks queued by crl::on_main
    lastLayout,      \* what the last refreshTitle() read
    controlsPending, \* the window was resized and _controls not yet moved
    widgetAlive,     \* widget() exists (the guard of crl::on_main)
    \* the call's mute and connection state, the mute button, the window
    muted,           \* _call->muted()
    callState,       \* _call->state()
    muteButton,      \* the state of _mute: its text and its type
    level,           \* the level last given to _mute->setLevel
    windowState,     \* _window: "shown", "hidden" or "closed"
    \* what the last handler was and what it did outside the panel
    lastEvent,
    effects

inviteVars == <<alreadyIn, argFullInCount, fullInCount, skippedUsers,
                rowState, selected, additional, titleFresh>>
panelVars == <<call, callAlive, realCall, membersCount, box, leaveDiscard>>
titleVars == <<platformWin, widgetWidth, widgetHeight, naturalWidth, controlsX,
               title, windowTitle, pendingRefresh, lastLayout,
               controlsPending, widgetAlive>>
controlVars == <<muted, callState, muteButton, level, windowState>>
vars == <<panelVars, inviteVars, titleVars, controlVars, lastEvent, effects>>

Max2(a, b) == IF a >= b THEN a ELSE b
Max3(a, b, c) == Max2(a, Max2(b, c))

(***************************************************************************)
(* QString::arg(int): the decimal text of a number, as characters.         *)
(***************************************************************************)
DigitChars == <<"0", "1", "2", "3", "4", "5", "6", "7", "8", "9">>

RECURSIVE Digits(_)
Digits(n) ==
    IF n < 10 THEN <<DigitChars[n + 1]>>
    ELSE Digits(n \div 10) \o <<DigitChars[(n % 10) + 1]>>

arg(n) == IF n < 0 THEN <<"-">> \o Digits(-n) ELSE Digits(n)

(***************************************************************************)
(* InviteController.                                                       *)
(***************************************************************************)
\* The constructor's initialiser of _fullInCount.
ctorFullInCount(f, in) == Max2(f, Cardinality(in))

\* alreadyInCount() counting the local set alone.
alreadyInCount_onlySet(full, in) == Cardinality(in)

\* alreadyInCount(): std::max(_fullInCount, int(_alreadyIn.size()))
alreadyInCount(full, in) == Max2(full, Cardinality(in))

isAlreadyIn(u, in) == u \in in

\* fullCount(): alreadyInCount() + delegate()->peerListSelectedRowsCount()
fullCount(full, in, selectedRowsCount) ==
    alreadyInCount(full, in) + selectedRowsCount

\* updateTitle(): fullCount() - 1, minus self
inOrInvited(full, in, selectedRowsCount) ==
    fullCount(full, in, selectedRowsCount) - 1

\* The maximum without its third operand.
canBeInvited_noInOrInvited(fullRowsCount, members, skippedCount, inOrInv) ==
    Max2(fullRowsCount, members - skippedCount)

\* updateTitle(): std::max of the three
canBeInvited(fullRowsCount, members, skippedCount, inOrInv) ==
    Max3(fullRowsCount, members - skippedCount, inOrInv)

\* updateTitle(): qsl("%1 / %2").arg(inOrInvited).arg(canBeInvited), or QString()
additionalTitle(inOrInv, canBe) ==
    IF canBe # 0
        THEN arg(inOrInv) \o <<" ", "/", " ">> \o arg(canBe)
        ELSE <<>>

fullRowsCountOf(rs) == Cardinality({u \in Users : rs[u] # "none"})

\* updateTitle() run in a state with selection sel, rows rs and skipped set sk.
updateTitle(sel, rs, sk) ==
    LET inOrInv == inOrInvited(fullInCount', alreadyIn', Cardinality(sel))
        canBe == canBeInvited(fullRowsCountOf(rs), membersCount,
                              Cardinality(sk), inOrInv)
    IN  /\ additional' = additionalTitle(inOrInv, canBe)
        /\ titleFresh' = TRUE

createRowSkips(u) == isSelf(u) \/ isBot(u)

\* createRow() that never disables the row it returns.
createRowResult_noDisabled(u, in) ==
    IF createRowSkips(u) THEN "null" ELSE "enabled"

\* createRow() without its early return.
createRowResult_noNull(u, in) ==
    IF isAlreadyIn(u, in) THEN "disabledChecked" ELSE "enabled"

\* createRow(): "null" for nullptr, else the state of the row it returns.
createRowResult(u, in) ==
    IF createRowSkips(u) THEN "null"
    ELSE IF isAlreadyIn(u, in) THEN "disabledChecked" ELSE "enabled"

\* The emplace reported as inserting nothing.
skippedInserted_never(u, sk) == FALSE

\* _skippedUsers.emplace(user).second: the user was not in the set before.
skippedInserted(u, sk) == u \notin sk

\* The list activates a row on a click unless the row is disabled.
rowCanBeActivated(row) == row = "enabled"

\* The list keeps one row per peer: a returned row is appended unless the peer
\* has one already.
appendRow(rs, u, row) ==
    IF row = "null" \/ rs[u] # "none" THEN rs ELSE [rs EXCEPT ![u] = row]

RECURSIVE appendRows(_, _, _)
appendRows(rs, us, in) ==
    IF us = {} THEN rs
    ELSE LET u == CHOOSE x \in us : TRUE
         IN  appendRows(appendRow(rs, u, createRowResult(u, in)), us \ {u}, in)

skippedAfter(sk, us) == sk \cup {u \in us : createRowSkips(u)}

NoRows == [u \in Users |-> "none"]


controllerGone ==
    /\ alreadyIn' = {}
    /\ argFullInCount' = 0
    /\ fullInCount' = 0
    /\ skippedUsers' = {}
    /\ rowState' = NoRows
    /\ selected' = {}
    /\ additional' = <<>>
    /\ titleFresh' = FALSE

(***************************************************************************)
(* What a handler does outside the panel's own fields.                     *)
(***************************************************************************)
ShowBox(b) == [op |-> "showBox", box |-> b]
CallOp(name) == [op |-> name, alive |-> callAlive]
InviteUsers(us, r) ==
    [op |-> "inviteUsers", alive |-> callAlive, users |-> us, result |-> r]
Toast(kind, value) == [op |-> "toast", kind |-> kind, value |-> value]
Returned(u, row) == [op |-> "createRow", user |-> u, row |-> row]
Fatal == [op |-> "fatal"]
ShowLeaveBox(discardCallChecked, canManage) ==
    [op |-> "showBox", box |-> "leave",
     discardCallChecked |-> discardCallChecked, canManage |-> canManage]

\* GroupCall::inviteUsers returns std::variant<int, not_null<UserData*>>.
InviteResults ==
    {[kind |-> "count", value |-> n] : n \in 0..NumUsers}
        \cup {[kind |-> "user", value |-> u] : u \in 1..NumUsers}

(***************************************************************************)
(* GroupPanel::addMembers, reached through _members->addMembersRequests(). *)
(* known are invitedToCallUsers(real->id()) and real->participants()       *)
(* together, f is real->fullCount(); loaded are the users whose rows       *)
(* ParticipantsBoxController::prepare() creates at once.                   *)
(***************************************************************************)
\* The early return without the comparison of the ids.
addMembersReturnsEarly_noIdCheck == ~call \/ realCall = NoRealCall

\* if (!_call || !real || real->id() != _call->id()) return;
addMembersReturnsEarly ==
    ~call \/ realCall = NoRealCall \/ realCall # CallId

\* alreadyIn without the emplace of session().user().
addMembersAlreadyIn_noSelf(known) == known

\* alreadyIn: the invited users and the participants, and session().user().
addMembersAlreadyIn(known) == known \cup {Self}

AddMembers(known, f, loaded) ==
    /\ box = "none"
    /\ lastEvent' = "addMembers"
    /\ IF ~call \/ addMembersReturnsEarly
        THEN /\ effects' = <<>>
             /\ UNCHANGED <<panelVars, inviteVars>>
        ELSE /\ alreadyIn' = addMembersAlreadyIn(known)
             /\ argFullInCount' = f
             /\ fullInCount' = ctorFullInCount(f, alreadyIn')
             /\ skippedUsers' = skippedAfter({Self}, loaded)
             /\ rowState' = appendRows(NoRows, loaded, alreadyIn')
             /\ selected' = {}
             /\ updateTitle(selected', rowState', skippedUsers')
             /\ box' = "invite"
             /\ effects' = <<ShowBox("invite")>>
             /\ UNCHANGED <<call, callAlive, realCall, membersCount, leaveDiscard>>
    /\ UNCHANGED <<titleVars, controlVars>>

(***************************************************************************)
(* InviteController::createRow, called for a user of the loaded slice.     *)
(***************************************************************************)
CreateRow(u) ==
    /\ box = "invite"
    /\ lastEvent' = "createRow"
    /\ LET row == createRowResult(u, alreadyIn)
       IN  /\ effects' = <<Returned(u, row)>>
           /\ rowState' = appendRow(rowState, u, row)
           /\ IF createRowSkips(u) /\ skippedInserted(u, skippedUsers)
               THEN /\ skippedUsers' = skippedUsers \cup {u}
                    /\ UNCHANGED <<alreadyIn, fullInCount>>
                    /\ updateTitle(selected, rowState, skippedUsers')
               ELSE /\ skippedUsers' = IF createRowSkips(u)
                                           THEN skippedUsers \cup {u}
                                           ELSE skippedUsers
                    /\ titleFresh' = /\ titleFresh
                                     /\ rowState' = rowState
                                     /\ skippedUsers' = skippedUsers
                    /\ UNCHANGED <<alreadyIn, fullInCount, additional>>
    /\ UNCHANGED <<panelVars, argFullInCount, selected>>
    /\ UNCHANGED <<titleVars, controlVars>>

(***************************************************************************)
(* InviteController::rowClicked on the row of u: the list activates only   *)
(* rows that are not disabled.  Unchecking removes the item from the       *)
(* selection, which runs itemDeselectedHook as well.                       *)
(***************************************************************************)
RowClicked(u) ==
    /\ box = "invite"
    /\ rowCanBeActivated(rowState[u])
    /\ lastEvent' = "rowClicked"
    /\ effects' = <<>>
    /\ selected' = IF u \in selected THEN selected \ {u} ELSE selected \cup {u}
    /\ UNCHANGED <<alreadyIn, fullInCount>>
    /\ updateTitle(selected', rowState, skippedUsers)
    /\ UNCHANGED <<panelVars, argFullInCount, skippedUsers, rowState>>
    /\ UNCHANGED <<titleVars, controlVars>>

(***************************************************************************)
(* InviteController::itemDeselectedHook: the item of u was removed from    *)
(* the selection field above the list.                                     *)
(***************************************************************************)
ItemDeselected(u) ==
    /\ box = "invite"
    /\ u \in selected
    /\ lastEvent' = "itemDeselected"
    /\ effects' = <<>>
    /\ selected' = selected \ {u}
    /\ UNCHANGED <<alreadyIn, fullInCount>>
    /\ updateTitle(selected', rowState, skippedUsers)
    /\ UNCHANGED <<panelVars, argFullInCount, skippedUsers, rowState>>
    /\ UNCHANGED <<titleVars, controlVars>>

(***************************************************************************)
(* The invite box's buttons (the initBox lambda of addMembers).            *)
(***************************************************************************)
\* The captured pointer used without asking the weak pointer.
weakGet_ignoreExpiry == TRUE

\* weak.get() of base::make_weak(_call): the call, unless it is gone.
weakGet == callAlive

\* The toasts shown for a result of inviteSelectedUsers.
\* The toasts without the test of *count > 0.
inviteToasts_always(r) ==
    IF r.kind = "user" THEN <<Toast("user", r.value)>>
    ELSE <<Toast("many", r.value)>>

inviteToasts(r) ==
    IF r.kind = "user" THEN <<Toast("user", r.value)>>
    ELSE IF r.value > 0 THEN <<Toast("many", r.value)>>
    ELSE <<>>

\* InviteController::inviteSelectedUsers: Expects(!peer->isSelf()) on each row.
inviteSelectedUsersExpects(sel) == \A u \in sel : ~isSelf(u)

InviteSubmit(r) ==
    /\ box = "invite"
    /\ lastEvent' = "inviteSubmit"
    /\ IF weakGet /\ ~inviteSelectedUsersExpects(selected)
        THEN /\ effects' = <<Fatal>>
             /\ UNCHANGED <<panelVars, inviteVars>>
        ELSE /\ effects' = IF weakGet
                               THEN <<InviteUsers(selected, r)>> \o inviteToasts(r)
                               ELSE <<>>
             /\ box' = "none"
             /\ controllerGone
             /\ UNCHANGED <<call, callAlive, realCall, membersCount, leaveDiscard>>
    /\ UNCHANGED <<titleVars, controlVars>>

InviteCancel ==
    /\ box = "invite"
    /\ lastEvent' = "inviteCancel"
    /\ effects' = <<>>
    /\ box' = "none"
    /\ controllerGone
    /\ UNCHANGED <<call, callAlive, realCall, membersCount, leaveDiscard>>
    /\ UNCHANGED <<titleVars, controlVars>>

(***************************************************************************)
(* GroupPanel::hangup and LeaveGroupCallBox.  canManage is                 *)
(* call->channel()->canManageCall() when the box is built.                 *)
(***************************************************************************)
\* if (!weak) return;  with weak = base::make_weak(call.get())
leaveWeakValid == callAlive

\* The checkbox "discard" of a new leave box.
leaveBoxCheckbox(canManage, discardChecked) ==
    IF canManage
        THEN (IF discardChecked THEN "checked" ELSE "unchecked")
        ELSE "absent"

Hangup(discardCallChecked, canManage) ==
    /\ box = "none"
    /\ lastEvent' = "hangup"
    /\ IF ~call
        THEN /\ effects' = <<>>
             /\ UNCHANGED panelVars
        ELSE /\ box' = "leave"
             /\ leaveDiscard' = leaveBoxCheckbox(canManage, discardCallChecked)
             /\ effects' = <<ShowLeaveBox(discardCallChecked, canManage)>>
             /\ UNCHANGED <<call, callAlive, realCall, membersCount>>
    /\ UNCHANGED inviteVars
    /\ UNCHANGED <<titleVars, controlVars>>

LeaveToggleDiscard ==
    /\ box = "leave"
    /\ leaveDiscard # "absent"
    /\ lastEvent' = "leaveToggle"
    /\ effects' = <<>>
    /\ leaveDiscard' = IF leaveDiscard = "checked" THEN "unchecked" ELSE "checked"
    /\ UNCHANGED <<call, callAlive, realCall, membersCount, box, inviteVars>>
    /\ UNCHANGED <<titleVars, controlVars>>

\* The confirm button reading the checkbox as unchecked.
leaveDiscardCall_never(checkbox) == FALSE

\* const auto discardCall = (discard && discard->checked());
leaveDiscardCall(checkbox) == checkbox = "checked"

LeaveConfirm ==
    /\ box = "leave"
    /\ lastEvent' = "leaveConfirm"
    /\ effects' = IF ~leaveWeakValid THEN <<>>
                  ELSE IF leaveDiscardCall(leaveDiscard) THEN <<CallOp("discard")>>
                  ELSE <<CallOp("hangup")>>
    /\ box' = "none"
    /\ leaveDiscard' = "absent"
    /\ UNCHANGED <<call, callAlive, realCall, membersCount, inviteVars>>
    /\ UNCHANGED <<titleVars, controlVars>>

LeaveCancel ==
    /\ box = "leave"
    /\ lastEvent' = "leaveCancel"
    /\ effects' = <<>>
    /\ box' = "none"
    /\ leaveDiscard' = "absent"
    /\ UNCHANGED <<call, callAlive, realCall, membersCount, inviteVars>>
    /\ UNCHANGED <<titleVars, controlVars>>

(***************************************************************************)
(* The mute button.  initWithCall combines _call->mutedValue() with        *)
(* _call->stateValue(); both give the current value at once and every      *)
(* later one, for as long as _callLifetime lives.                          *)
(***************************************************************************)
MuteStates == {"Active", "Muted", "ForceMuted"}

\* The states initWithCall compares with, one joined state and one final one.
CallStates == {"Creating", "Joining", "Connecting", "Joined", "Ended"}

\* _1 == State::Creating || _1 == State::Joining || _1 == State::Connecting
isConnecting(st) == st \in {"Creating", "Joining", "Connecting"}

muteButtonText(mute, connecting) ==
    IF connecting THEN "lng_group_call_connecting"
    ELSE IF mute = "ForceMuted" THEN "lng_group_call_force_muted"
    ELSE IF mute # "Active" THEN "lng_call_unmute_audio"
    ELSE "lng_call_mute_audio"

\* The type chosen by the mute state alone.
muteButtonType_ignoresConnecting(mute, connecting) ==
    IF mute = "ForceMuted" THEN "ForceMuted"
    ELSE IF mute = "Muted" THEN "Muted"
    ELSE "Active"

muteButtonType(mute, connecting) ==
    IF connecting THEN "Connecting"
    ELSE IF mute = "ForceMuted" THEN "ForceMuted"
    ELSE IF mute = "Muted" THEN "Muted"
    ELSE "Active"

\* The Ui::CallMuteButtonState given to _mute->setState.
muteButtonState(mute, connecting) ==
    [text |-> muteButtonText(mute, connecting),
     type |-> muteButtonType(mute, connecting)]

\* The state _mute is constructed with.
ctorMuteButton == [text |-> "lng_group_call_connecting", type |-> "Connecting"]

\* The subscriptions kept when the call is taken away.
callSubscribed_always == TRUE

\* _callLifetime holds subscriptions exactly while _call is set: initWithCall
\* destroys it, stores the call and returns before subscribing when it is null.
callSubscribed == call

Click(button) == [op |-> "click", button |-> button]
SetMuted(m) == [op |-> "setMuted", alive |-> callAlive, value |-> m]
ToggleMute(u, m) == [op |-> "toggleMute", alive |-> callAlive, user |-> u, mute |-> m]
CloseEvent(cancelled) == [op |-> "closeEvent", cancelled |-> cancelled]

\* The call's mute state changes (the viewer is muted or allowed to speak).
MutedChanged(m) ==
    /\ callAlive
    /\ m # muted
    /\ muted' = m
    /\ muteButton' = IF callSubscribed
                        THEN muteButtonState(m, isConnecting(callState))
                        ELSE muteButton
    /\ lastEvent' = "mutedChanged"
    /\ effects' = <<>>
    /\ UNCHANGED <<callState, level, windowState>>
    /\ UNCHANGED <<panelVars, inviteVars, titleVars>>

\* The call's connection state changes.
StateChanged(st) ==
    /\ callAlive
    /\ st # callState
    /\ callState' = st
    /\ muteButton' = IF callSubscribed
                        THEN muteButtonState(muted, isConnecting(st))
                        ELSE muteButton
    /\ lastEvent' = "stateChanged"
    /\ effects' = <<>>
    /\ UNCHANGED <<muted, level, windowState>>
    /\ UNCHANGED <<panelVars, inviteVars, titleVars>>

\* call->levelUpdates(): filtered by update.self, then _mute->setLevel.
LevelUpdate(self, value) ==
    /\ callAlive
    /\ level' = IF callSubscribed /\ self THEN value ELSE level
    /\ lastEvent' = "levelUpdate"
    /\ effects' = <<>>
    /\ UNCHANGED <<muted, callState, muteButton, windowState>>
    /\ UNCHANGED <<panelVars, inviteVars, titleVars>>

\* The click handler with the ForceMuted test left out.
muteClickActs_anyState(button, c, m) == button = "Left" /\ c

\* filter(button == Qt::LeftButton), then _call && muted() != ForceMuted
muteClickActs(button, c, m) == button = "Left" /\ c /\ m # "ForceMuted"

\* (_call->muted() == MuteState::Active) ? MuteState::Muted : MuteState::Active
muteClickSets(m) == IF m = "Active" THEN "Muted" ELSE "Active"

\* A click on _mute: setMuted changes the call's mute state, which reaches
\* the button through the subscription of initWithCall.
MuteClick(button) ==
    /\ box = "none"
    /\ lastEvent' = "muteClick"
    /\ IF muteClickActs(button, call, muted)
        THEN /\ muted' = muteClickSets(muted)
             /\ muteButton' = IF callSubscribed
                                 THEN muteButtonState(muted', isConnecting(callState))
                                 ELSE muteButton
             /\ effects' = <<Click(button), SetMuted(muted')>>
        ELSE /\ effects' = <<Click(button)>>
             /\ UNCHANGED <<muted, muteButton>>
    /\ UNCHANGED <<callState, level, windowState>>
    /\ UNCHANGED <<panelVars, inviteVars, titleVars>>

\* _settings' clicked callback: the settings box, closed by the user later.
SettingsClick ==
    /\ box = "none"
    /\ lastEvent' = "settingsClick"
    /\ IF call
        THEN /\ box' = "settings"
             /\ effects' = <<ShowBox("settings")>>
        ELSE /\ box' = box
             /\ effects' = <<>>
    /\ UNCHANGED <<call, callAlive, realCall, membersCount, leaveDiscard>>
    /\ UNCHANGED <<inviteVars, titleVars, controlVars>>

SettingsClose ==
    /\ box = "settings"
    /\ box' = "none"
    /\ lastEvent' = "settingsClose"
    /\ effects' = <<>>
    /\ UNCHANGED <<call, callAlive, realCall, membersCount, leaveDiscard>>
    /\ UNCHANGED <<inviteVars, titleVars, controlVars>>

\* _members->toggleMuteRequests(): a member's row asks to mute or unmute u.
ToggleMuteRequest(u, mute) ==
    /\ box = "none"
    /\ lastEvent' = "toggleMuteRequest"
    /\ effects' = IF callSubscribed /\ call THEN <<ToggleMute(u, mute)>> ELSE <<>>
    /\ UNCHANGED <<panelVars, inviteVars, titleVars, controlVars>>

(***************************************************************************)
(* The window: the event filter of initWindow, handleClose and             *)
(* showAndActivate.                                                        *)
(***************************************************************************)
\* handleClose() that lets every request through.
handleClose_never(c) == FALSE

\* handleClose(): hides the window and returns true if _call is set.
handleClose(c) == c

\* QEvent::Close: ignored and cancelled if handleClose(), else continued.
windowAfterClose(c) == IF handleClose(c) THEN "hidden" ELSE "closed"

\* The user, or the system, asks the window to close.
CloseRequested ==
    /\ windowState = "shown"
    /\ windowState' = windowAfterClose(call)
    /\ lastEvent' = "closeRequested"
    /\ effects' = <<CloseEvent(handleClose(call))>>
    /\ UNCHANGED <<muted, callState, muteButton, level>>
    /\ UNCHANGED <<panelVars, inviteVars, titleVars>>

ShowAndActivate ==
    /\ windowState # "shown"
    /\ windowState' = "shown"
    /\ lastEvent' = "showAndActivate"
    /\ effects' = <<>>
    /\ UNCHANGED <<muted, callState, muteButton, level>>
    /\ UNCHANGED <<panelVars, inviteVars, titleVars>>

(***************************************************************************)
(* The surroundings: the channel's data, and the owner of the call, which  *)
(* detaches the panel (closeBeforeDestroy) before it destroys the call.    *)
(***************************************************************************)
RealCallChanged(r) ==
    /\ r # realCall
    /\ realCall' = r
    /\ lastEvent' = "realCallChanged"
    /\ effects' = <<>>
    /\ UNCHANGED <<call, callAlive, membersCount, box, leaveDiscard, inviteVars>>
    /\ UNCHANGED <<titleVars, controlVars>>

MembersCountChanged(m) ==
    /\ m # membersCount
    /\ membersCount' = m
    /\ lastEvent' = "membersCountChanged"
    /\ effects' = <<>>
    /\ titleFresh' = FALSE
    /\ UNCHANGED <<call, callAlive, realCall, box, leaveDiscard, alreadyIn,
                   argFullInCount, fullInCount, skippedUsers, rowState,
                   selected, additional>>
    /\ UNCHANGED <<titleVars, controlVars>>

\* GroupPanel::closeBeforeDestroy: _window->close() delivers the close event
\* at once, then initWithCall(nullptr) sets _call to null.
CloseBeforeDestroy ==
    /\ call
    /\ windowState' = windowAfterClose(call)
    /\ effects' = <<CloseEvent(handleClose(call))>>
    /\ call' = FALSE
    /\ lastEvent' = "closeBeforeDestroy"
    /\ UNCHANGED <<callAlive, realCall, membersCount, box, leaveDiscard, inviteVars>>
    /\ UNCHANGED <<muted, callState, muteButton, level>>
    /\ UNCHANGED titleVars

\* The GroupCall object is destroyed, after its owner detached the panel.
DestroyCall ==
    /\ ~call
    /\ callAlive
    /\ callAlive' = FALSE
    /\ lastEvent' = "destroyCall"
    /\ effects' = <<>>
    /\ UNCHANGED <<call, realCall, membersCount, box, leaveDiscard, inviteVars>>
    /\ UNCHANGED <<titleVars, controlVars>>

(***************************************************************************)
(* The title label: computeTitleRect, refreshTitle, updateControlsGeometry *)
(* and the size handler of initWidget.                                     *)
(***************************************************************************)
\* The quotient of C++'s int division by a positive divisor: towards zero.
CDiv(a, b) == IF a >= 0 THEN a \div b ELSE -((-a) \div b)

BlankTitle == " "                       \* u" "_q
TranslatedTitle == "lng_group_call_title"

NoRect == [has |-> FALSE, x |-> 0, width |-> 0]

\* computeTitleRect() built without the Q_OS_WIN branch.
computeTitleRect_never(win, cx) == NoRect

\* QRect(0, 0, controls.x(), controls.height()) under Q_OS_WIN, else nullopt.
computeTitleRect(win, cx) ==
    IF win THEN [has |-> TRUE, x |-> 0, width |-> cx] ELSE NoRect

\* initWindow: _window->setTitle(computeTitleRect() ? u" "_q : tr::...(tr::now))
initWindowTitle(win, cx) ==
    IF computeTitleRect(win, cx).has THEN BlankTitle ELSE TranslatedTitle

\* The branch of refreshTitle's if-chain taken for a widget of width w, a label
\* of natural width best and a title rectangle starting at left, rectWidth wide.
titleBranch(w, best, left, rectWidth) ==
    LET from == CDiv(w - best, 2)
    IN  IF from >= left /\ from + best <= left + rectWidth THEN 1
        ELSE IF rectWidth < best THEN 2
        ELSE IF from < left THEN 3
        ELSE 4

\* The second branch keeping the natural width.
titlePlacement_noShrink(w, best, left, rectWidth) ==
    LET from == CDiv(w - best, 2)
        branch == titleBranch(w, best, left, rectWidth)
    IN  IF branch = 1 THEN [x |-> from, width |-> best]
        ELSE IF branch = 2 THEN [x |-> left, width |-> best]
        ELSE IF branch = 3 THEN [x |-> left, width |-> best]
        ELSE [x |-> left + rectWidth - best, width |-> best]

\* The first branch taken whatever the rectangle is.
titlePlacement_centerAlways(w, best, left, rectWidth) ==
    [x |-> CDiv(w - best, 2), width |-> best]

\* resizeToWidth and moveToLeft of the branch taken.
titlePlacement(w, best, left, rectWidth) ==
    LET from == CDiv(w - best, 2)
        branch == titleBranch(w, best, left, rectWidth)
    IN  IF branch = 1 THEN [x |-> from, width |-> best]
        ELSE IF branch = 2 THEN [x |-> left, width |-> rectWidth]
        ELSE IF branch = 3 THEN [x |-> left, width |-> best]
        ELSE [x |-> left + rectWidth - best, width |-> best]

NoTitle == [exists |-> FALSE, x |-> 0, width |-> 0]
NoLayout == [done |-> FALSE, w |-> 0, best |-> 0, left |-> 0, rectWidth |-> 0]

\* refreshTitle() with label t and native title wt: the new label, the new
\* native title, and what was read.
refreshTitle(t, wt, w, best, win, cx) ==
    LET rect == computeTitleRect(win, cx)
        at == titlePlacement(w, best, rect.x, rect.width)
    IN  IF rect.has
            THEN [title |-> [exists |-> TRUE, x |-> at.x, width |-> at.width],
                  windowTitle |-> IF ~t.exists THEN BlankTitle ELSE wt,
                  layout |-> [done |-> TRUE, w |-> w, best |-> best,
                              left |-> rect.x, rectWidth |-> rect.width]]
            ELSE [title |-> NoTitle,
                  windowTitle |-> IF t.exists THEN TranslatedTitle ELSE wt,
                  layout |-> [done |-> TRUE, w |-> w, best |-> best,
                              left |-> 0, rectWidth |-> 0]]

\* QSize::isEmpty()
sizeIsEmpty(w, h) == w <= 0 \/ h <= 0

\* updateControlsGeometry(): returns early on an empty size, else ends with
\* refreshTitle().  ll is the last layout read so far.
updateControlsGeometry(t, wt, ll, w, h, best, win, cx) ==
    IF sizeIsEmpty(w, h)
        THEN [title |-> t, windowTitle |-> wt, layout |-> ll]
        ELSE refreshTitle(t, wt, w, best, win, cx)

Widths == 0..MaxWidth
Heights == {0, 1}

\* The size handler without its crl::on_main call.
sizeHandlerQueues_none(pending) == pending

\* crl::on_main(widget(), [=] { refreshTitle(); }): one more callback queued.
sizeHandlerQueues(pending) == pending + 1

\* The handler of widget()->sizeValue() | rpl::skip(1).  It runs before the
\* window has moved _controls to their place for the new size.
Resized(w, h) ==
    /\ widgetAlive
    /\ <<w, h>> # <<widgetWidth, widgetHeight>>
    /\ pendingRefresh < MaxPending
    /\ widgetWidth' = w
    /\ widgetHeight' = h
    /\ LET r == updateControlsGeometry(title, windowTitle, lastLayout,
                                       w, h, naturalWidth, platformWin, controlsX)
       IN  /\ title' = r.title
           /\ windowTitle' = r.windowTitle
           /\ lastLayout' = r.layout
    /\ pendingRefresh' = sizeHandlerQueues(pendingRefresh)
    /\ controlsPending' = platformWin
    /\ lastEvent' = "resized"
    /\ effects' = <<>>
    /\ UNCHANGED <<platformWin, naturalWidth, controlsX, widgetAlive>>
    /\ UNCHANGED <<panelVars, inviteVars, controlVars>>

\* The callback queued by crl::on_main(widget(), [=] { refreshTitle(); }):
\* it runs on a later turn of the main loop, unless widget() is gone by then.
DeferredRefresh ==
    /\ pendingRefresh > 0
    /\ pendingRefresh' = pendingRefresh - 1
    /\ IF widgetAlive
        THEN /\ LET r == refreshTitle(title, windowTitle, widgetWidth,
                                      naturalWidth, platformWin, controlsX)
                IN  /\ title' = r.title
                    /\ windowTitle' = r.windowTitle
                    /\ lastLayout' = r.layout
             /\ lastEvent' = "deferredRefresh"
        ELSE /\ lastEvent' = "deferredDropped"
             /\ UNCHANGED <<title, windowTitle, lastLayout>>
    /\ effects' = <<>>
    /\ UNCHANGED <<platformWin, widgetWidth, widgetHeight, naturalWidth,
                   controlsX, controlsPending, widgetAlive>>
    /\ UNCHANGED <<panelVars, inviteVars, controlVars>>

\* The handler of _members->desiredHeightValue().
DesiredHeightChanged ==
    /\ widgetAlive
    /\ LET r == updateControlsGeometry(title, windowTitle, lastLayout,
                                       widgetWidth, widgetHeight, naturalWidth,
                                       platformWin, controlsX)
       IN  /\ title' = r.title
           /\ windowTitle' = r.windowTitle
           /\ lastLayout' = r.layout
    /\ lastEvent' = "desiredHeightChanged"
    /\ effects' = <<>>
    /\ UNCHANGED <<platformWin, widgetWidth, widgetHeight, naturalWidth,
                   controlsX, pendingRefresh, controlsPending, widgetAlive>>
    /\ UNCHANGED <<panelVars, inviteVars, controlVars>>

\* The window moves its title controls (only built under Q_OS_WIN).
ControlsGeometryChanged(x) ==
    /\ platformWin
    /\ widgetAlive
    /\ x # controlsX \/ controlsPending
    /\ controlsX' = x
    /\ controlsPending' = FALSE
    /\ lastEvent' = "controlsGeometryChanged"
    /\ effects' = <<>>
    /\ UNCHANGED <<platformWin, widgetWidth, widgetHeight, naturalWidth,
                   title, windowTitle, pendingRefresh, lastLayout, widgetAlive>>
    /\ UNCHANGED <<panelVars, inviteVars, controlVars>>

\* The panel is destroyed: widget() and the label go with the window.
WidgetDestroyed ==
    /\ widgetAlive
    /\ widgetAlive' = FALSE
    /\ title' = NoTitle
    /\ lastEvent' = "widgetDestroyed"
    /\ effects' = <<>>
    /\ UNCHANGED <<platformWin, widgetWidth, widgetHeight, naturalWidth,
                   controlsX, windowTitle, pendingRefresh, lastLayout,
                   controlsPending>>
    /\ UNCHANGED <<panelVars, inviteVars, controlVars>>

\* The widths tried where the order of the steps is what matters.
ResizeWidths == {0, 2, 3, MaxWidth}

\* The rest of a resize: the window moves _controls to their place for the
\* new size, in the same turn of the main loop as the size handler.
ControlsSettled ==
    /\ controlsPending
    /\ \E x \in ResizeWidths : ControlsGeometryChanged(x)

\* A queued callback runs on a later turn of the main loop, that is after the
\* resize that queued it has been processed to its end.
DeferredRefreshTick ==
    /\ ~controlsPending
    /\ DeferredRefresh

(***************************************************************************)
(* Specifications.                                                         *)
(***************************************************************************)
InitController ==
    /\ alreadyIn = {}
    /\ argFullInCount = 0
    /\ fullInCount = 0
    /\ skippedUsers = {}
    /\ rowState = NoRows
    /\ selected = {}
    /\ additional = <<>>
    /\ titleFresh = FALSE

\* The state after GroupPanel::GroupPanel(call).
InitPanelState ==
    /\ call = TRUE
    /\ callAlive = TRUE
    /\ box = "none"
    /\ leaveDiscard = "absent"
    /\ lastEvent = "construct"
    /\ effects = <<>>

\* The constructor for a call with mute state m in state st: _mute starts as
\* ctorMuteButton and initWithCall's subscription sets it from the pair.
InitControlsFor(m, st) ==
    /\ muted = m
    /\ callState = st
    /\ muteButton = muteButtonState(m, isConnecting(st))
    /\ level = 0
    /\ windowState = "shown"

\* The constructor for a widget w wide and h high: initWindow, then
\* initLayout's updateControlsGeometry.
InitTitleFor(win, w, h, best, cx) ==
    LET r == updateControlsGeometry(NoTitle, initWindowTitle(win, cx), NoLayout,
                                    w, h, best, win, cx)
    IN  /\ platformWin = win
        /\ widgetWidth = w
        /\ widgetHeight = h
        /\ naturalWidth = best
        /\ controlsX = cx
        /\ title = r.title
        /\ windowTitle = r.windowTitle
        /\ lastLayout = r.layout
        /\ pendingRefresh = 0
        /\ controlsPending = FALSE
        /\ widgetAlive = TRUE

InitInvite ==
    /\ InitPanelState
    /\ InitController
    /\ InitTitleFor(FALSE, 1, 1, 1, 0)
    /\ InitControlsFor("Active", "Joined")
    /\ realCall = CallId
    /\ membersCount \in 0..MaxMembers

NextInvite ==
    \/ \E known \in SUBSET Users, f \in 0..MaxFull, loaded \in SUBSET Users :
            AddMembers(known, f, loaded)
    \/ \E u \in Users : CreateRow(u)
    \/ \E u \in Users : RowClicked(u)
    \/ \E u \in Users : ItemDeselected(u)
    \/ \E m \in 0..MaxMembers : MembersCountChanged(m)
    \/ InviteCancel

SpecInvite == InitInvite /\ [][NextInvite]_vars

InitPanel ==
    /\ InitPanelState
    /\ InitController
    /\ InitTitleFor(FALSE, 1, 1, 1, 0)
    /\ InitControlsFor("Active", "Joined")
    /\ realCall \in RealCalls
    /\ membersCount = MaxMembers

NextPanel ==
    \/ \E known \in SUBSET Users, loaded \in SUBSET Users :
            AddMembers(known, Cardinality(known), loaded)
    \/ \E u \in Users : CreateRow(u)
    \/ \E u \in Users : RowClicked(u)
    \/ \E u \in Users : ItemDeselected(u)
    \/ \E r \in InviteResults : InviteSubmit(r)
    \/ InviteCancel
    \/ \E d \in BOOLEAN, m \in BOOLEAN : Hangup(d, m)
    \/ LeaveToggleDiscard
    \/ LeaveConfirm
    \/ LeaveCancel
    \/ \E r \in RealCalls : RealCallChanged(r)
    \/ CloseBeforeDestroy
    \/ DestroyCall

SpecPanel == InitPanel /\ [][NextPanel]_vars

InitTitle ==
    /\ InitPanelState
    /\ InitController
    /\ InitControlsFor("Active", "Joined")
    /\ realCall = CallId
    /\ membersCount = 0
    /\ \E win \in BOOLEAN, w \in Widths, h \in Heights, best \in 1..MaxNatural :
            \E cx \in (IF win THEN Widths ELSE {0}) :
                InitTitleFor(win, w, h, best, cx)

NextTitle ==
    \/ \E w \in Widths, h \in Heights : Resized(w, h)
    \/ DeferredRefresh
    \/ DesiredHeightChanged
    \/ \E x \in Widths : ControlsGeometryChanged(x)

SpecTitle == InitTitle /\ [][NextTitle]_vars

\* Resizes as the main loop runs them: the size handler, the window moving
\* its controls, and the queued callbacks, which the loop runs in the end.
InitResize ==
    /\ InitPanelState
    /\ InitController
    /\ InitControlsFor("Active", "Joined")
    /\ realCall = CallId
    /\ membersCount = 0
    /\ \E win \in BOOLEAN, w \in ResizeWidths, h \in Heights :
            \E best \in {2, MaxNatural}, cx \in (IF win THEN ResizeWidths ELSE {0}) :
                InitTitleFor(win, w, h, best, cx)

NextResize ==
    \/ \E w \in ResizeWidths, h \in Heights : Resized(w, h)
    \/ ControlsSettled
    \/ DeferredRefreshTick
    \/ DesiredHeightChanged
    \/ WidgetDestroyed

FairResize ==
    /\ WF_vars(ControlsSettled)
    /\ SF_vars(DeferredRefreshTick)

SpecResize == InitResize /\ [][NextResize]_vars /\ FairResize

\* The panel's buttons, the call's state and the window.
InitControls ==
    /\ InitPanelState
    /\ InitController
    /\ InitTitleFor(FALSE, 1, 1, 1, 0)
    /\ realCall = CallId
    /\ membersCount = 0
    /\ \E m \in MuteStates, st \in CallStates : InitControlsFor(m, st)

NextControls ==
    \/ \E m \in MuteStates : MutedChanged(m)
    \/ \E st \in CallStates : StateChanged(st)
    \/ \E self \in BOOLEAN, value \in 0..MaxLevel : LevelUpdate(self, value)
    \/ \E button \in {"Left", "Right"} : MuteClick(button)
    \/ SettingsClick
    \/ SettingsClose
    \/ Hangup(FALSE, FALSE)
    \/ LeaveCancel
    \/ AddMembers({}, 0, {})
    \/ InviteCancel
    \/ \E u \in 1..NumUsers, mute \in BOOLEAN : ToggleMuteRequest(u, mute)
    \/ CloseRequested
    \/ ShowAndActivate
    \/ CloseBeforeDestroy
    \/ DestroyCall

SpecControls == InitControls /\ [][NextControls]_vars

(***************************************************************************)
(* Reading a counter "X / Y" back.                                         *)
(***************************************************************************)
DigitValue(c) == CHOOSE d \in 0..9 : DigitChars[d + 1] = c

RECURSIVE ParseNat(_)
ParseNat(s) ==
    IF s = <<>> THEN 0
    ELSE 10 * ParseNat(SubSeq(s, 1, Len(s) - 1)) + DigitValue(s[Len(s)])

ParseInt(s) == IF s[1] = "-" THEN -ParseNat(Tail(s)) ELSE ParseNat(s)

SlashAt(s) == CHOOSE i \in 1..Len(s) : s[i] = "/"
CounterX(s) == ParseInt(SubSeq(s, 1, SlashAt(s) - 2))
CounterY(s) == ParseInt(SubSeq(s, SlashAt(s) + 2, Len(s)))

IsInviteUsers(e) == e.op = "inviteUsers"
IsToast(e) == e.op = "toast"

(***************************************************************************)
(* C1.  For the already-in set A and the full count f the constructor was  *)
(* given, alreadyInCount() is max(f, |A|): never below |A|, and not        *)
(* smaller for any larger set with the same f.                             *)
(***************************************************************************)
C1_AlreadyInCount ==
    box = "invite" =>
        LET n == alreadyInCount(fullInCount, alreadyIn)
            size == Cardinality(alreadyIn)
        IN  /\ n = (IF argFullInCount > size THEN argFullInCount ELSE size)
            /\ n >= size
            /\ \A larger \in SUBSET Users :
                  alreadyIn \subseteq larger =>
                      alreadyInCount(ctorFullInCount(argFullInCount, larger),
                                     larger) >= n

C1_Witness ==
    /\ box = "invite"
    /\ argFullInCount = 2
    /\ alreadyIn = {Self}
    /\ alreadyInCount(fullInCount, alreadyIn) = 2

(***************************************************************************)
(* C2.  A title refresh leaves the additional title computed from what it  *)
(* read: with inOrInvited = alreadyInCount + selectedCount - 1 and         *)
(* canBeInvited = max(fullRows, membersCount - |skipped|, inOrInvited) it  *)
(* is "inOrInvited / canBeInvited" when canBeInvited > 0, else empty.      *)
(***************************************************************************)
C2_TitleFormula ==
    (box = "invite" /\ titleFresh) =>
        LET size == Cardinality(alreadyIn)
            already == IF argFullInCount > size THEN argFullInCount ELSE size
            fullRows == Cardinality({u \in Users : rowState[u] # "none"})
            inOr == already + Cardinality(selected) - 1
            byMembers == membersCount - Cardinality(skippedUsers)
            canBe == CHOOSE m \in {fullRows, byMembers, inOr} :
                        /\ m >= fullRows
                        /\ m >= byMembers
                        /\ m >= inOr
        IN  additional = IF canBe > 0
                            THEN arg(inOr) \o <<" ", "/", " ">> \o arg(canBe)
                            ELSE <<>>

C2_Witness ==
    /\ box = "invite"
    /\ titleFresh
    /\ lastEvent = "rowClicked"
    /\ Cardinality(selected) = 1
    /\ membersCount = 0
    /\ additional = <<"1", " ", "/", " ", "2">>

(***************************************************************************)
(* C3.  In a box opened by addMembers a displayed counter "X / Y" has      *)
(* Y > 0 and 0 <= X <= Y, whatever the members count, the rows loaded and  *)
(* the selection are.                                                      *)
(***************************************************************************)
C3_CounterSane ==
    (box = "invite" /\ additional # <<>>) =>
        /\ CounterY(additional) > 0
        /\ 0 <= CounterX(additional)
        /\ CounterX(additional) <= CounterY(additional)

C3_Witness ==
    /\ box = "invite"
    /\ additional # <<>>
    /\ titleFresh
    /\ membersCount < Cardinality(skippedUsers)
    /\ selected # {}

(***************************************************************************)
(* C4.  createRow returns no row for a self or bot user, who is in the     *)
(* skipped set afterwards; for any other user it returns a row that is     *)
(* disabled-checked if the user is already in and enabled if not.  A call  *)
(* for a user already skipped leaves the skipped set as it was.            *)
(***************************************************************************)
C4_Result ==
    lastEvent = "createRow" =>
        LET u == effects[1].user
            row == effects[1].row
        IN  IF u = Self \/ u \in Bots
                THEN row = "null" /\ u \in skippedUsers
                ELSE /\ row = (IF u \in alreadyIn THEN "disabledChecked"
                                                  ELSE "enabled")
                     /\ u \notin skippedUsers

C4_SkippedOnce ==
    (lastEvent' = "createRow" /\ effects'[1].user \in skippedUsers)
        => skippedUsers' = skippedUsers

\* C4: the result of every createRow call, and the skipped set kept by a
\* repeated call.
C4_CreateRow == []C4_Result /\ [][C4_SkippedOnce]_vars

C4_Witness ==
    /\ lastEvent = "createRow"
    /\ effects[1].user \in Bots
    /\ effects[1].row = "null"
    /\ skippedUsers = {Self} \cup Bots
    /\ \E u \in 1..NumUsers : rowState[u] = "disabledChecked"

(***************************************************************************)
(* C5 as stated: every user is in at most one of already-in, selectable    *)
(* and skipped; no user is both in the already-in set and in the skipped   *)
(* set.                                                                    *)
(***************************************************************************)
C5_Original ==
    box = "invite" =>
        \A u \in Users :
            /\ Cardinality({s \in {"alreadyIn", "selectable", "skipped"} :
                              \/ s = "alreadyIn" /\ u \in alreadyIn
                              \/ s = "selectable" /\ rowState[u] = "enabled"
                              \/ s = "skipped" /\ u \in skippedUsers}) <= 1
            /\ ~(u \in alreadyIn /\ u \in skippedUsers)

(***************************************************************************)
(* C5 amended.  Every user is in at most one of: shown as a disabled       *)
(* already-in row, shown as a selectable row, skipped (no row).  A         *)
(* disabled row is a user of the already-in set and a selectable row is    *)
(* not.  The viewer is always both in the already-in set and in the        *)
(* skipped set, and any other user in both is a bot.                       *)
(***************************************************************************)
C5_Amended ==
    box = "invite" =>
        /\ \A u \in Users :
            /\ Cardinality({s \in {"disabled", "selectable", "skipped"} :
                              \/ s = "disabled" /\ rowState[u] = "disabledChecked"
                              \/ s = "selectable" /\ rowState[u] = "enabled"
                              \/ s = "skipped" /\ u \in skippedUsers}) <= 1
            /\ rowState[u] = "disabledChecked" => u \in alreadyIn
            /\ rowState[u] = "enabled" => u \notin alreadyIn
            /\ (u \in alreadyIn /\ u \in skippedUsers) => (u = Self \/ u \in Bots)
        /\ Self \in alreadyIn
        /\ Self \in skippedUsers
        /\ selected \subseteq {u \in Users : rowState[u] = "enabled"}

C5_Witness ==
    /\ box = "invite"
    /\ rowState[1] = "disabledChecked"
    /\ rowState[2] = "enabled"
    /\ 2 \in selected
    /\ Bots \subseteq (alreadyIn \cap skippedUsers)

(***************************************************************************)
(* C6.  A submission made while the call is alive invokes inviteUsers once *)
(* with the selected users and shows one toast naming the user for a       *)
(* single-user result, one pluralized toast for a count n > 0, and none    *)
(* for a count of 0; no submission shows more than one toast.              *)
(***************************************************************************)
C6_Step ==
    lastEvent' = "inviteSubmit" =>
        LET calls == SelectSeq(effects', IsInviteUsers)
            toasts == SelectSeq(effects', IsToast)
        IN  /\ Len(toasts) <= 1
            /\ callAlive =>
                /\ Len(calls) = 1
                /\ calls[1].users = selected
                /\ Len(effects') = Len(calls) + Len(toasts)
                /\ LET r == calls[1].result
                   IN  /\ r.kind = "user" =>
                            toasts = <<[op |-> "toast", kind |-> "user",
                                        value |-> r.value]>>
                       /\ (r.kind = "count" /\ r.value > 0) =>
                            toasts = <<[op |-> "toast", kind |-> "many",
                                        value |-> r.value]>>
                       /\ (r.kind = "count" /\ r.value = 0) => toasts = <<>>

\* C6: every step that is an invite submission satisfies C6_Step.
C6_SubmitOnce == [][C6_Step]_vars

C6_Witness ==
    /\ lastEvent = "inviteSubmit"
    /\ Len(effects) = 2
    /\ effects[1].op = "inviteUsers"
    /\ effects[1].users = 1..NumUsers
    /\ effects[1].result = [kind |-> "count", value |-> 2]
    /\ effects[2] = [op |-> "toast", kind |-> "many", value |-> 2]

(***************************************************************************)
(* C7.  With a title rectangle [L, R], a widget W wide and a label of      *)
(* natural width N, c = (W - N) / 2, the label is placed by the first rule *)
(* that matches: (1) c >= L and c + N <= R: x = c, width N; (2) R - L < N: *)
(* x = L, width R - L; (3) c < L: x = L, width N; (4) x = R - N, width N;  *)
(* and (4) is taken only when c + N > R.                                   *)
(***************************************************************************)
MaxLeft == 2

C7_Rule(W, N, L, R) ==
    LET c == CDiv(W - N, 2)
    IN  CASE c >= L /\ c + N <= R -> [x |-> c, width |-> N]
          [] ~(c >= L /\ c + N <= R) /\ R - L < N -> [x |-> L, width |-> R - L]
          [] ~(c >= L /\ c + N <= R) /\ ~(R - L < N) /\ c < L ->
                [x |-> L, width |-> N]
          [] OTHER -> [x |-> R - N, width |-> N]

C7_AllInputs ==
    \A W \in Widths, N \in 0..MaxNatural, L \in 0..MaxLeft, rw \in Widths :
        /\ titlePlacement(W, N, L, rw) = C7_Rule(W, N, L, L + rw)
        /\ titleBranch(W, N, L, rw) = 4 => CDiv(W - N, 2) + N > L + rw

C7_Examples ==
    /\ titlePlacement(800, 200, 0, 150) = [x |-> 0, width |-> 150]
    /\ titlePlacement(800, 100, 0, 500) = [x |-> 350, width |-> 100]

\* C7: the label is where the rules put it, for the layout last read and for
\* every input of the bounded ranges, and the two examples come out as stated.
C7_Placement ==
    /\ title.exists =>
        [x |-> title.x, width |-> title.width]
            = C7_Rule(lastLayout.w, lastLayout.best, lastLayout.left,
                      lastLayout.left + lastLayout.rectWidth)
    /\ C7_AllInputs
    /\ C7_Examples

C7_Witness ==
    /\ lastEvent = "resized"
    /\ title.exists
    /\ lastLayout.w = 6
    /\ lastLayout.best = 2
    /\ lastLayout.rectWidth = 3
    /\ title.x = 1
    /\ title.width = 2

(***************************************************************************)
(* C8.  Without a title rectangle the label is absent and the native title *)
(* is the translated string; with one, after a layout pass the label       *)
(* exists and the native title is blank: one of the two carries the title. *)
(***************************************************************************)
C8_OneCarrier ==
    /\ ~platformWin =>
        /\ ~title.exists
        /\ windowTitle = TranslatedTitle
    /\ (platformWin /\ lastLayout.done) =>
        /\ title.exists
        /\ windowTitle = BlankTitle
    /\ (~platformWin \/ lastLayout.done) =>
        (title.exists <=> windowTitle # TranslatedTitle)

C8_Witness ==
    /\ platformWin
    /\ lastEvent = "deferredRefresh"
    /\ lastLayout.done
    /\ title.exists
    /\ windowTitle = BlankTitle

(***************************************************************************)
(* C9.  A confirm button of a leave box or an invite box pressed after the *)
(* call is gone does nothing: discard, hangup and inviteUsers are never    *)
(* invoked on an expired call, and no invite toast is shown then.          *)
(***************************************************************************)
C9_NoUseAfterTeardown ==
    \A i \in DOMAIN effects :
        /\ effects[i].op \in {"discard", "hangup", "inviteUsers"} =>
              effects[i].alive
        /\ ~callAlive =>
              effects[i].op \notin {"discard", "hangup", "inviteUsers", "toast"}

C9_Witness ==
    /\ ~callAlive
    /\ lastEvent = "inviteSubmit"
    /\ effects = <<>>
    /\ box = "none"

(***************************************************************************)
(* C10.  An add-members request with no call attached, with no real call   *)
(* in the channel, or with a real call of another id shows nothing and     *)
(* changes nothing; a hangup request with no call attached shows no box.   *)
(***************************************************************************)
C10_Step ==
    /\ (/\ lastEvent' = "addMembers"
        /\ (~call \/ realCall = NoRealCall \/ realCall # CallId))
          => /\ effects' = <<>>
             /\ UNCHANGED <<panelVars, inviteVars, titleVars>>
    /\ (lastEvent' = "hangup" /\ ~call)
          => /\ effects' = <<>>
             /\ UNCHANGED <<panelVars, inviteVars, titleVars>>

\* C10: every such request is a step that changes nothing and shows nothing.
C10_SilentNoOp == [][C10_Step]_vars

C10_Witness ==
    /\ lastEvent = "addMembers"
    /\ call
    /\ realCall = OtherCallId
    /\ effects = <<>>
    /\ box = "none"

(***************************************************************************)
(* C11.  In an open invite box the viewer has no row and every selected    *)
(* user has a row and is not the viewer, after any createRow calls, row    *)
(* activations and deselections; so no submission ends in the fatal        *)
(* branch of inviteSelectedUsers.                                          *)
(***************************************************************************)
C11_ExpectsHold ==
    /\ box = "invite" =>
        /\ rowState[Self] = "none"
        /\ \A u \in selected : u # Self /\ rowState[u] # "none"
    /\ \A i \in DOMAIN effects : effects[i].op # "fatal"

C11_Witness ==
    /\ box = "invite"
    /\ lastEvent = "itemDeselected"
    /\ selected # {}
    /\ skippedUsers = {Self} \cup Bots
    /\ callAlive

(***************************************************************************)
(* C12.  A step that changes the number of selected rows or the skipped    *)
(* set of an open invite box leaves the counter computed from the new      *)
(* state; and in every state of the box the counter is the one computed    *)
(* from the current selection count and the current size of the skipped    *)
(* set, for some rows count and members count.                             *)
(***************************************************************************)
C12_Counter(selectedCount, skippedCount, fullRows, members) ==
    LET size == Cardinality(alreadyIn)
        already == IF argFullInCount > size THEN argFullInCount ELSE size
        inOr == already + selectedCount - 1
        byMembers == members - skippedCount
        canBe == CHOOSE m \in {fullRows, byMembers, inOr} :
                    m >= fullRows /\ m >= byMembers /\ m >= inOr
    IN  IF canBe > 0 THEN arg(inOr) \o <<" ", "/", " ">> \o arg(canBe)
        ELSE <<>>

C12_State ==
    box = "invite" =>
        \E fullRows \in 0..Cardinality(Users), members \in 0..MaxMembers :
            additional = C12_Counter(Cardinality(selected),
                                     Cardinality(skippedUsers), fullRows, members)

C12_Step ==
    (/\ box = "invite"
     /\ box' = "invite"
     /\ \/ Cardinality(selected') # Cardinality(selected)
        \/ skippedUsers' # skippedUsers)
        => /\ titleFresh'
           /\ additional' =
                C12_Counter(Cardinality(selected), Cardinality(skippedUsers),
                            Cardinality({u \in Users : rowState[u] # "none"}),
                            membersCount)'

\* C12: the counter is never stale with respect to the selection count or the
\* skipped set.
C12_NeverStale == []C12_State /\ [][C12_Step]_vars

C12_Witness ==
    /\ box = "invite"
    /\ lastEvent = "createRow"
    /\ effects[1].user \in Bots
    /\ Cardinality(selected) = 1
    /\ membersCount = 3
    /\ skippedUsers = {Self} \cup Bots
    /\ additional = <<"1", " ", "/", " ", "1">>

(***************************************************************************)
(* C15.  A leave box has the discard checkbox exactly when the viewer can  *)
(* manage the call, checked as the discard-default flag says.  Confirming  *)
(* while the call is alive invokes one operation on it: discard if the     *)
(* checkbox exists and is checked then, hangup otherwise.  Cancelling      *)
(* invokes nothing.                                                        *)
(***************************************************************************)
C15_Step ==
    /\ (lastEvent' = "hangup" /\ call) =>
          leaveDiscard' =
              IF ~effects'[1].canManage THEN "absent"
              ELSE IF effects'[1].discardCallChecked THEN "checked"
              ELSE "unchecked"
    /\ (lastEvent' = "leaveConfirm" /\ callAlive) =>
          /\ Len(effects') = 1
          /\ effects'[1].op \in {"discard", "hangup"}
          /\ effects'[1].op = "discard" <=> leaveDiscard = "checked"
    /\ lastEvent' = "leaveCancel" => effects' = <<>>

\* C15: every step of opening, confirming or cancelling a leave box is as
\* C15_Step says.
C15_LeaveOrDiscard == [][C15_Step]_vars

C15_Witness ==
    /\ lastEvent = "leaveConfirm"
    /\ effects = <<[op |-> "discard", alive |-> TRUE]>>
    /\ box = "none"

(***************************************************************************)
(* C17.  No selected user of an open invite box is in the already-in set,  *)
(* and the users a submission passes to inviteUsers are the selected ones: *)
(* no already-in user is ever passed to inviteUsers.                       *)
(***************************************************************************)
C17_Selected == box = "invite" => selected \cap alreadyIn = {}

C17_Step ==
    lastEvent' = "inviteSubmit" =>
        \A i \in DOMAIN effects' :
            effects'[i].op = "inviteUsers" =>
                /\ effects'[i].users = selected
                /\ effects'[i].users \cap alreadyIn = {}

\* C17: in every state and at every submission.
C17_NoAlreadyInInvited == []C17_Selected /\ [][C17_Step]_vars

C17_Witness ==
    /\ box = "invite"
    /\ lastEvent = "rowClicked"
    /\ 1 \in alreadyIn
    /\ rowState[1] = "disabledChecked"
    /\ selected = {2}
    /\ callAlive

(***************************************************************************)
(* C13.  A refresh queued by a resize runs after the controls have their   *)
(* place for the new size and reads the current width and rectangle; every *)
(* resize is followed by such a refresh unless the widget is destroyed;    *)
(* and once resizes stop, the label stays where the final width and the    *)
(* final rectangle put it.                                                 *)
(***************************************************************************)
C13_Step ==
    lastEvent' = "deferredRefresh" =>
        /\ ~controlsPending
        /\ lastLayout' = [done |-> TRUE, w |-> widgetWidth, best |-> naturalWidth,
                          left |-> 0,
                          rectWidth |-> IF platformWin THEN controlsX ELSE 0]

C13_Settled ==
    (widgetAlive /\ lastLayout.done) =>
        IF platformWin
            THEN /\ title.exists
                 /\ [x |-> title.x, width |-> title.width]
                        = C7_Rule(widgetWidth, naturalWidth, 0, controlsX)
            ELSE ~title.exists

C13_EventuallyRefreshed ==
    (lastEvent = "resized") ~> (~widgetAlive \/ lastEvent = "deferredRefresh")

C13_Stabilises == <>[](lastEvent # "resized") => <>[]C13_Settled

\* C13: the three together.
C13_DeferredRefresh ==
    /\ [][C13_Step]_vars
    /\ C13_EventuallyRefreshed
    /\ C13_Stabilises

C13_Witness ==
    /\ lastEvent = "deferredRefresh"
    /\ platformWin
    /\ widgetAlive
    /\ pendingRefresh = 0
    /\ widgetWidth = 6
    /\ naturalWidth = 2
    /\ controlsX = 3
    /\ title.x = 1
    /\ title.width = 2

(***************************************************************************)
(* C16.  With a title rectangle of non-negative width the label lies       *)
(* inside it horizontally after every layout pass: rect.left <= label.x    *)
(* and label.x + label.width <= rect.right, for every widget width and     *)
(* every natural width.                                                    *)
(***************************************************************************)
C16_Inside(at, left, rectWidth) ==
    /\ left <= at.x
    /\ at.x + at.width <= left + rectWidth

C16_AllInputs ==
    \A W \in Widths, N \in 0..MaxNatural, L \in 0..MaxLeft,
       rw \in (-1)..MaxWidth :
        rw >= 0 => C16_Inside(titlePlacement(W, N, L, rw), L, rw)

\* C16: after every layout pass, and for every input of the ranges.
C16_InsideRect ==
    /\ (title.exists /\ lastLayout.rectWidth >= 0) =>
          C16_Inside(title, lastLayout.left, lastLayout.rectWidth)
    /\ C16_AllInputs

C16_Witness ==
    /\ title.exists
    /\ lastEvent = "deferredRefresh"
    /\ lastLayout.rectWidth > 0
    /\ lastLayout.rectWidth < lastLayout.best
    /\ title.x = 0
    /\ title.width = lastLayout.rectWidth

(***************************************************************************)
(* C14.  While a call is attached the mute button shows what the current   *)
(* mute state and connection state give: connecting (Creating, Joining or  *)
(* Connecting) gives the connecting text and type whatever the mute state  *)
(* is; otherwise ForceMuted, Muted and Active give their own text and      *)
(* type.  Text and type always belong together, and the button is          *)
(* constructed as Connecting.                                              *)
(***************************************************************************)
C14_Table(mute, st) ==
    IF st \in {"Creating", "Joining", "Connecting"}
        THEN [text |-> "lng_group_call_connecting", type |-> "Connecting"]
    ELSE CASE mute = "ForceMuted" ->
                [text |-> "lng_group_call_force_muted", type |-> "ForceMuted"]
           [] mute = "Muted" ->
                [text |-> "lng_call_unmute_audio", type |-> "Muted"]
           [] mute = "Active" ->
                [text |-> "lng_call_mute_audio", type |-> "Active"]

C14_Pairs ==
    {[text |-> "lng_group_call_connecting", type |-> "Connecting"],
     [text |-> "lng_group_call_force_muted", type |-> "ForceMuted"],
     [text |-> "lng_call_unmute_audio", type |-> "Muted"],
     [text |-> "lng_call_mute_audio", type |-> "Active"]}

C14_ButtonFunction ==
    /\ call => muteButton = C14_Table(muted, callState)
    /\ muteButton \in C14_Pairs
    /\ ctorMuteButton.type = "Connecting"
    /\ ctorMuteButton.text = "lng_group_call_connecting"

C14_Witness ==
    /\ call
    /\ lastEvent = "stateChanged"
    /\ callState = "Joined"
    /\ muted = "ForceMuted"
    /\ muteButton.type = "ForceMuted"

(***************************************************************************)
(* C18.  A left click on the mute button with a call attached turns Active *)
(* into Muted and any state other than Active and ForceMuted into Active;  *)
(* a click in ForceMuted, a click with another button and a click with no  *)
(* call attached leave the mute state alone and call nothing.              *)
(***************************************************************************)
C18_Step ==
    lastEvent' = "muteClick" =>
        LET left == effects'[1].button = "Left"
        IN  /\ (left /\ call /\ muted = "Active") =>
                  /\ muted' = "Muted"
                  /\ effects'[2] = [op |-> "setMuted", alive |-> TRUE,
                                    value |-> "Muted"]
            /\ (left /\ call /\ muted \notin {"Active", "ForceMuted"}) =>
                  /\ muted' = "Active"
                  /\ effects'[2] = [op |-> "setMuted", alive |-> TRUE,
                                    value |-> "Active"]
            /\ (~left \/ ~call \/ muted = "ForceMuted") =>
                  /\ muted' = muted
                  /\ Len(effects') = 1

\* C18: every click on the mute button is as C18_Step says.
C18_MuteClick == [][C18_Step]_vars

C18_Witness ==
    /\ lastEvent = "muteClick"
    /\ call
    /\ muted = "ForceMuted"
    /\ effects = <<[op |-> "click", button |-> "Left"]>>

(***************************************************************************)
(* C19.  Once the panel is detached no step calls anything on a call or    *)
(* shows a box: the mute button and its level stay as they are whatever    *)
(* the call reports, and requests of the members list and clicks on the    *)
(* mute, hangup and settings buttons change nothing.                       *)
(***************************************************************************)
C19_Step ==
    ~call =>
        /\ \A i \in DOMAIN effects' :
              effects'[i].op \in {"click", "closeEvent"}
        /\ muteButton' = muteButton
        /\ level' = level
        /\ box' \in {box, "none"}
        /\ lastEvent' \in {"muteClick", "hangup", "settingsClick", "addMembers",
                           "toggleMuteRequest", "levelUpdate"} =>
              UNCHANGED <<panelVars, inviteVars, titleVars, controlVars>>

\* C19: every step taken with no call attached is as C19_Step says.
C19_DetachedIsInert == [][C19_Step]_vars

C19_Witness ==
    /\ ~call
    /\ callAlive
    /\ lastEvent = "mutedChanged"
    /\ muted = "Active"
    /\ callState = "Joined"
    /\ muteButton.type = "ForceMuted"

(***************************************************************************)
(* C20.  A close request is cancelled, and the window hidden, exactly when *)
(* a call is attached as the request is processed; with no call attached   *)
(* it is let through and the window closes.  The request closeBeforeDestroy*)
(* makes is processed before it detaches the call, so it is cancelled.     *)
(***************************************************************************)
C20_Step ==
    lastEvent' \in {"closeRequested", "closeBeforeDestroy"} =>
        /\ Len(effects') = 1
        /\ effects'[1].op = "closeEvent"
        /\ effects'[1].cancelled <=> call
        /\ windowState' = IF call THEN "hidden" ELSE "closed"
        /\ lastEvent' = "closeBeforeDestroy" =>
              effects'[1].cancelled /\ ~call'

\* C20: every close request is as C20_Step says.
C20_CloseRequests == [][C20_Step]_vars

C20_Witness ==
    /\ lastEvent = "closeRequested"
    /\ ~call
    /\ windowState = "closed"
    /\ effects = <<[op |-> "closeEvent", cancelled |-> FALSE]>>

=============================================================================
